---- MODULE Spec2Model ----
(***************************************************************************)
(* Model of the orderlib matching engine (src/src/lib.rs): an OrderBook    *)
(* holding two BTreeSet<Order> books and a sequence counter, with the      *)
(* operations add (-> trade), remove, and the top-of-book accessors.       *)
(*                                                                         *)
(* A BTreeSet<Order> is modelled as the sequence of its elements in        *)
(* iteration order, i.e. ascending by Ord for Order::cmp.  The set uses    *)
(* only cmp (never PartialEq::eq) to locate, insert and remove elements.   *)
(* Buy orders are stored with their price negated, sell orders with their  *)
(* price as given.                                                         *)
(*                                                                         *)
(* Spec           callers add orders and cancel orders that rest.          *)
(* SpecAnyRemove  callers add orders and call remove with any identity.    *)
(* Both reach the same books: a remove that names no resting order         *)
(* changes nothing (C9).                                                   *)
(***************************************************************************)
EXTENDS Integers, Sequences, FiniteSets, TLC

\* ---------------------------------------------------------------- bounds
\* number of add calls explored on one engine
MaxOrders == 3
\* number of add calls explored when remove is called with any identity
MaxOrdersAnyRemove == 2
MaxOrdersReplace == 2
MaxOrdersNumbered == 2
MaxOrdersDepth == 3

\* ------------------------------------------------------ program constants
\* OrderBook::new sets counter: 1230
StartCounter == 1230

\* get_epoch_ms(): the wall-clock reading in ms.  No comparison, match or
\* lookup in the library reads a timestamp, so one nonzero reading is used.
get_epoch_ms == 1

OrderType == {"Limit", "Market", "Fok", "Ioc", "Aon"}
OrderSide == {"Buy", "Sell"}

\* the prices and sizes callers use
Prices == {1, 2}
Sizes == {1, 2}

\* the order types callers pass to add: the three the tests use, and Fok
\* for the two types (Fok, Aon) that add gives an empty match arm
AddTypes == {"Limit", "Market", "Ioc", "Fok"}

\* Order::new(order_side, size, price, order_type)
OrderNew(order_side, size, price, order_type) ==
    [order_id |-> 0, order_number |-> 0, order_side |-> order_side,
     size |-> size, price |-> price, timestamp |-> 0,
     order_type |-> order_type]

\* ------------------------------------------------------------ comparator
\* PartialEq for Order::eq : equality by order_number only
OrderEq(self, other) == self.order_number = other.order_number

\* mutant of cmp: the price comparison reversed
cmp_PriceReversed(self, other) ==
    IF self.price < other.price THEN "Greater"
    ELSE IF self.price > other.price THEN "Less"
    ELSE IF self.order_number < other.order_number THEN "Greater"
    ELSE IF self.order_number > other.order_number THEN "Less"
    ELSE "Equal"

\* mutant of cmp: no tie-break, orders of one price compare Equal
cmp_IgnoresNumber(self, other) ==
    IF self.price > other.price THEN "Greater"
    ELSE IF self.price < other.price THEN "Less"
    ELSE "Equal"

\* Ord for Order::cmp
cmp(self, other) ==
    IF self.price > other.price THEN "Greater"
    ELSE IF self.price < other.price THEN "Less"
    ELSE IF self.order_number < other.order_number THEN "Greater"
    ELSE IF self.order_number > other.order_number THEN "Less"
    ELSE "Equal"

\* --------------------------------------------------- BTreeSet<Order> ops
\* BTreeSet::contains / get: an element comparing Equal to o
SetHas(s, o) == \E i \in 1..Len(s) : cmp(s[i], o) = "Equal"

\* BTreeSet::first
SetFirst(s) == s[1]

\* BTreeSet::remove(&o): drops the element comparing Equal to o
SetRemove(s, o) == SelectSeq(s, LAMBDA e : cmp(e, o) # "Equal")

\* BTreeSet::replace(o): overwrites the element comparing Equal to o, or
\* inserts o at its place in the order
SetReplace(s, o) ==
    IF SetHas(s, o)
    THEN [i \in 1..Len(s) |-> IF cmp(s[i], o) = "Equal" THEN o ELSE s[i]]
    ELSE SelectSeq(s, LAMBDA e : cmp(e, o) = "Less") \o <<o>>
         \o SelectSeq(s, LAMBDA e : cmp(e, o) = "Greater")

\* ------------------------------------------------------------ trade walk
\* mutant of NoCross: Market orders are held to their price field too
NoCross_MarketChecked(next_order, order) ==
    next_order.price > order.price

\* mutant of NoCross: an equal price does not cross either
NoCross_EqualStops(next_order, order) ==
    next_order.price >= order.price /\ order.order_type # "Market"

\* the crossing check of the loop (break when it holds)
NoCross(next_order, order) ==
    next_order.price > order.price /\ order.order_type # "Market"

\* mutant of NewFill: the fill is priced at the aggressor's limit
NewFill_AggressorPrice(order, next_order, bs) ==
    [size |-> 0, price |-> bs * order.price,
     direction |-> order.order_side, aggressor_id |-> order.order_id,
     passive_id |-> next_order.order_id, timestamp |-> get_epoch_ms,
     fill_id |-> 0]

\* the Fill built for one match, before its size is set
NewFill(order, next_order, bs) ==
    [size |-> 0, price |-> bs * next_order.price,
     direction |-> order.order_side, aggressor_id |-> order.order_id,
     passive_id |-> next_order.order_id, timestamp |-> get_epoch_ms,
     fill_id |-> 0]

\* mutant of TakePartial: the passive order is removed instead of reduced
TakePartial_DropsPassive(st, next_order, fill) ==
    [opp |-> SetRemove(st.opp, next_order),
     order |-> [st.order EXCEPT !.size = 0],
     fills |-> Append(st.fills, [fill EXCEPT !.size = st.order.size]),
     matched |-> Append(st.matched, next_order),
     done |-> TRUE]

\* branch order.size < next_order.size: passive reduced in place, break
TakePartial(st, next_order, fill) ==
    [opp |-> SetReplace(st.opp,
                 [next_order EXCEPT !.size = next_order.size - st.order.size]),
     order |-> [st.order EXCEPT !.size = 0],
     fills |-> Append(st.fills, [fill EXCEPT !.size = st.order.size]),
     matched |-> Append(st.matched, next_order),
     done |-> TRUE]

\* mutant of TakeWhole: the aggressor's size is not reduced
TakeWhole_KeepsSize(st, next_order, fill) ==
    [opp |-> SetRemove(st.opp, next_order),
     order |-> st.order,
     fills |-> Append(st.fills, [fill EXCEPT !.size = next_order.size]),
     matched |-> Append(st.matched, next_order),
     done |-> FALSE]

\* branch order.size > next_order.size: passive removed, walk continues
TakeWhole(st, next_order, fill) ==
    [opp |-> SetRemove(st.opp, next_order),
     order |-> [st.order EXCEPT !.size = st.order.size - next_order.size],
     fills |-> Append(st.fills, [fill EXCEPT !.size = next_order.size]),
     matched |-> Append(st.matched, next_order),
     done |-> FALSE]

\* branch order.size == next_order.size: passive removed, break
TakeExact(st, next_order, fill) ==
    [opp |-> SetRemove(st.opp, next_order),
     order |-> [st.order EXCEPT !.size = 0],
     fills |-> Append(st.fills, [fill EXCEPT !.size = next_order.size]),
     matched |-> Append(st.matched, next_order),
     done |-> TRUE]

\* one iteration of the while loop of trade
WalkStep(st, bs) ==
    LET next_order == SetFirst(st.opp)
        fill == NewFill(st.order, next_order, bs)
    IN  IF NoCross(next_order, st.order) THEN [st EXCEPT !.done = TRUE]
        ELSE IF st.order.size < next_order.size
             THEN TakePartial(st, next_order, fill)
        ELSE IF st.order.size > next_order.size
             THEN TakeWhole(st, next_order, fill)
        ELSE TakeExact(st, next_order, fill)

\* while opp.len() > 0 && order.size > 0 { ... }
RECURSIVE Walk(_, _)
Walk(st, bs) ==
    IF st.done \/ ~(Len(st.opp) > 0 /\ st.order.size > 0) THEN st
    ELSE Walk(WalkStep(st, bs), bs)

\* mutant of RestRemainder: an Ioc remainder rests like any other
RestRemainder_RestsIoc(these, order) ==
    IF order.size > 0
    THEN SetReplace(these, [order EXCEPT !.price = -1 * order.price])
    ELSE these

\* mutant of RestRemainder: the remainder rests with the walk's price sign
RestRemainder_KeepsSign(these, order) ==
    IF order.size > 0 /\ order.order_type # "Ioc"
    THEN SetReplace(these, order)
    ELSE these

\* mutant of RestRemainder: the aggressor rests whatever size it has left
RestRemainder_RestsEmpty(these, order) ==
    IF order.order_type # "Ioc"
    THEN SetReplace(these, [order EXCEPT !.price = -1 * order.price])
    ELSE these

\* the tail of trade: a remainder that is not Ioc rests with its price
\* sign restored
RestRemainder(these, order) ==
    IF order.size > 0 /\ order.order_type # "Ioc"
    THEN SetReplace(these, [order EXCEPT !.price = -1 * order.price])
    ELSE these

\* OrderBook::trade(order, bs) on books (buy, sell); `matched` (the passive
\* orders in the order they were hit) and `remaining` (order.size at the end
\* of the walk) are recorded for the properties.
trade(buy, sell, order0, bs) ==
    LET order == [order0 EXCEPT !.price = bs * order0.price]
        isBuy == order.order_side = "Buy"
        opp   == IF isBuy THEN sell ELSE buy
        these == IF isBuy THEN buy ELSE sell
        fin   == Walk([opp |-> opp, order |-> order, fills |-> <<>>,
                       matched |-> <<>>, done |-> FALSE], bs)
        rest  == RestRemainder(these, fin.order)
    IN  [buy |-> IF isBuy THEN rest ELSE fin.opp,
         sell |-> IF isBuy THEN fin.opp ELSE rest,
         fills |-> fin.fills,
         matched |-> fin.matched,
         remaining |-> fin.order.size]

\* ------------------------------------------------------------------ state
\* buy_orders, sell_orders, counter: the fields of OrderBook.
\* call, ret: the last call made on the engine and what it returned.
\* walk: what the last trade walk did (history, read by the properties).
VARIABLES buy_orders, sell_orders, counter, call, ret, walk

vars == <<buy_orders, sell_orders, counter, call, ret, walk>>

NoWalk == [matched |-> <<>>, remaining |-> 0]

\* OrderBook::new
Init ==
    /\ buy_orders = <<>>
    /\ sell_orders = <<>>
    /\ counter = StartCounter
    /\ call = [op |-> "new", order |-> OrderNew("Buy", 0, 0, "Limit")]
    /\ ret = [order_number |-> 0, fills |-> <<>>, removed |-> FALSE]
    /\ walk = NoWalk

\* mutant of Stamp: a sequence number the caller has set is kept
Stamp_KeepsNumber(o, n) ==
    [o EXCEPT !.timestamp = get_epoch_ms,
              !.order_number = IF o.order_number # 0 THEN o.order_number
                               ELSE n]

\* the first two statements of add: the engine's copy of the order gets the
\* time and the counter's value n, whatever the caller had put there
Stamp(o, n) ==
    [o EXCEPT !.timestamp = get_epoch_ms,
              !.order_number = n]

\* OrderBook::add(order)
add(o) ==
    LET order == Stamp(o, counter)
        bs == IF order.order_side = "Buy" THEN 1 ELSE -1
        t  == trade(buy_orders, sell_orders, order, bs)
    IN  /\ counter' = counter + 1
        /\ buy_orders' = t.buy
        /\ sell_orders' = t.sell
        /\ call' = [op |-> "add", order |-> o]
        /\ ret' = [order_number |-> order.order_number, fills |-> t.fills,
                   removed |-> FALSE]
        /\ walk' = [matched |-> t.matched, remaining |-> t.remaining]

\* mutant of RemoveFrom: the price of a buy order is not negated
RemoveFrom_NoNegate(buy, sell, order) ==
    IF order.order_side = "Buy"
    THEN [buy |-> SetRemove(buy, order), sell |-> sell,
          found |-> SetHas(buy, order)]
    ELSE [buy |-> buy, sell |-> SetRemove(sell, order),
          found |-> SetHas(sell, order)]

\* the result of OrderBook::remove(order): the book it leaves and the bool
RemoveFrom(buy, sell, order) ==
    IF order.order_side = "Buy"
    THEN LET neg == [order EXCEPT !.price = -order.price]
         IN  [buy |-> SetRemove(buy, neg), sell |-> sell,
              found |-> SetHas(buy, neg)]
    ELSE [buy |-> buy, sell |-> SetRemove(sell, order),
          found |-> SetHas(sell, order)]

\* OrderBook::remove(order)
remove(o) ==
    LET r == RemoveFrom(buy_orders, sell_orders, o)
    IN  /\ buy_orders' = r.buy
        /\ sell_orders' = r.sell
        /\ counter' = counter
        /\ call' = [op |-> "remove", order |-> o]
        /\ ret' = [order_number |-> 0, fills |-> <<>>, removed |-> r.found]
        /\ walk' = NoWalk

\* what BTreeSet::replace(o) returns, an Option as the set of at most one
\* element: the element comparing Equal to o, if any
SetTake(s, o) == {s[i] : i \in {j \in 1..Len(s) : cmp(s[j], o) = "Equal"}}

\* OrderBook::replace(order): the price of a Buy order is passed as given
replace(o) ==
    /\ buy_orders' = IF o.order_side = "Buy"
                     THEN SetReplace(buy_orders, o) ELSE buy_orders
    /\ sell_orders' = IF o.order_side = "Sell"
                      THEN SetReplace(sell_orders, o) ELSE sell_orders
    /\ counter' = counter
    /\ call' = [op |-> "replace", order |-> o]
    /\ ret' = [previous |-> IF o.order_side = "Buy"
                            THEN SetTake(buy_orders, o)
                            ELSE SetTake(sell_orders, o)]
    /\ walk' = NoWalk

\* OrderBook::best_bid: unwrap() of an empty first() panics
best_bid ==
    IF Len(buy_orders) = 0 THEN "panic"
    ELSE LET bid == SetFirst(buy_orders)
         IN  [bid EXCEPT !.price = -1 * bid.price]

\* OrderBook::best_offer
best_offer ==
    IF Len(sell_orders) = 0 THEN "None" ELSE SetFirst(sell_orders)

\* f64::trunc of the quotient a / b of two whole numbers, b # 0: toward zero
TruncDiv(a, b) ==
    LET abs(x) == IF x < 0 THEN -x ELSE x
        q == abs(a) \div abs(b)
    IN  IF (a < 0) = (b < 0) THEN q ELSE -q

\* mutant of could_add: the comparison as it was before the switch
could_add_Le(size_weighted_price, found_size, order, lim) ==
    LET oprice == order.price
        denom == lim.num - oprice * lim.den
    IN  IF denom <= 0
        THEN order.size
        ELSE LET q == TruncDiv(size_weighted_price * lim.den
                                  - lim.num * found_size, denom)
                 m == IF 0 > q THEN 0 ELSE q
             IN  IF order.size < m THEN order.size ELSE m

\* could_add; the f64 lim is the fraction lim.num / lim.den, lim.den > 0, so
\* lim - oprice has the sign of denom below and the quotient
\* (size_weighted_price - lim * found_size) / (lim - oprice) is
\* (size_weighted_price * lim.den - lim.num * found_size) / denom
could_add(size_weighted_price, found_size, order, lim) ==
    LET oprice == order.price
        denom == lim.num - oprice * lim.den
    IN  IF denom >= 0
        THEN order.size
        ELSE LET q == TruncDiv(size_weighted_price * lim.den
                                  - lim.num * found_size, denom)
                 m == IF 0 > q THEN 0 ELSE q
             IN  IF order.size < m THEN order.size ELSE m

\* the loop of size_at_limit from the i-th order of the opposite book on
RECURSIVE SizeLoop(_, _, _, _, _)
SizeLoop(opposite_stack, i, found_size, size_weighted_price, price) ==
    IF i > Len(opposite_stack)
    THEN [found_size |-> found_size,
          size_weighted_price |-> size_weighted_price]
    ELSE LET order == opposite_stack[i]
             add_these == could_add(size_weighted_price, found_size, order,
                                    price)
         IN  IF add_these <= 0
             THEN [found_size |-> found_size,
                   size_weighted_price |-> size_weighted_price]
             ELSE SizeLoop(opposite_stack, i + 1, found_size + add_these,
                           size_weighted_price + add_these * order.price,
                           price)

\* a LimitReport; its f64 price is the fraction of the two whole numbers the
\* code divides (0 / 0 is NaN)
LimitReport(size_weighted_price, found_size) ==
    [price |-> [num |-> IF size_weighted_price < 0 THEN -size_weighted_price
                        ELSE size_weighted_price,
                den |-> found_size],
     size |-> found_size]

\* the Option<LimitReport> of size_at_limit, as the set of at most one report
SizeAtLimit(buy, sell, direction, price0) ==
    LET price == IF direction = "Sell"
                 THEN [price0 EXCEPT !.num = -price0.num] ELSE price0
        opposite_stack == IF direction = "Sell" THEN buy ELSE sell
    IN  IF Len(opposite_stack) = 0 THEN {}
        ELSE LET w == SizeLoop(opposite_stack, 1, 0, 0, price)
             IN  IF w.found_size = 0 THEN {}
                 ELSE {LimitReport(w.size_weighted_price, w.found_size)}

\* OrderBook::size_at_limit(direction, price)
size_at_limit(direction, price) ==
    /\ UNCHANGED <<buy_orders, sell_orders, counter>>
    /\ call' = [op |-> "size_at_limit", direction |-> direction,
                price |-> price]
    /\ ret' = [report |-> SizeAtLimit(buy_orders, sell_orders, direction,
                                      price)]
    /\ walk' = NoWalk

\* mutant of LimitLoop: the last order is counted with its whole size
RECURSIVE LimitLoop_WholeLast(_, _, _, _)
LimitLoop_WholeLast(opposite_stack, i, unfound_size, size_weighted_price) ==
    IF i > Len(opposite_stack)
    THEN [unfound_size |-> unfound_size,
          size_weighted_price |-> size_weighted_price]
    ELSE LET order == opposite_stack[i]
         IN  IF unfound_size <= order.size
             THEN [unfound_size |-> 0,
                   size_weighted_price |->
                      size_weighted_price + order.size * order.price]
             ELSE LimitLoop_WholeLast(opposite_stack, i + 1,
                     unfound_size - order.size,
                     size_weighted_price + order.size * order.price)

\* the loop of limit_at_size from the i-th order of the opposite book on
RECURSIVE LimitLoop(_, _, _, _)
LimitLoop(opposite_stack, i, unfound_size, size_weighted_price) ==
    IF i > Len(opposite_stack)
    THEN [unfound_size |-> unfound_size,
          size_weighted_price |-> size_weighted_price]
    ELSE LET order == opposite_stack[i]
         IN  IF unfound_size <= order.size
             THEN [unfound_size |-> 0,
                   size_weighted_price |->
                      size_weighted_price + unfound_size * order.price]
             ELSE LimitLoop(opposite_stack, i + 1,
                            unfound_size - order.size,
                            size_weighted_price + order.size * order.price)

\* the Option<LimitReport> of limit_at_size, as the set of at most one report
LimitAtSize(buy, sell, direction, size) ==
    LET opposite_stack == IF direction = "Sell" THEN buy ELSE sell
        w == LimitLoop(opposite_stack, 1, size, 0)
    IN  IF size = 0 THEN {}
        ELSE {LimitReport(w.size_weighted_price, size - w.unfound_size)}

\* OrderBook::limit_at_size(direction, size)
limit_at_size(direction, size) ==
    /\ UNCHANGED <<buy_orders, sell_orders, counter>>
    /\ call' = [op |-> "limit_at_size", direction |-> direction,
                size |-> size]
    /\ ret' = [report |-> LimitAtSize(buy_orders, sell_orders, direction,
                                      size)]
    /\ walk' = NoWalk

\* the price the accessors report for a stored order: best_bid restores the
\* sign of a buy order, best_offer returns a sell order as stored
PriceShown(o) == IF o.order_side = "Buy" THEN -1 * o.price ELSE o.price

len_bids == Len(buy_orders)
len_offers == Len(sell_orders)

\* the orders a caller passes to add
AddInputs ==
    {OrderNew(s, z, p, t) : s \in OrderSide, z \in Sizes, p \in Prices,
                            t \in AddTypes}

\* the orders a caller passes to remove: a copy carrying a side, a price and
\* a sequence number (0 = the default of Order::new, a number that add has
\* returned, or the next number, which no order has yet)
RemoveInputs ==
    {[OrderNew(s, 1, p, "Limit") EXCEPT !.order_number = n] :
        s \in OrderSide, p \in Prices,
        n \in {0} \cup (StartCounter..counter)}

\* those of them that carry the side, the sequence number and the reported
\* price of an order that rests (what best_bid / best_offer hand out)
RestingCopies ==
    {a \in RemoveInputs :
        \E r \in {buy_orders[i] : i \in 1..Len(buy_orders)}
                  \cup {sell_orders[i] : i \in 1..Len(sell_orders)} :
           /\ r.order_side = a.order_side
           /\ r.order_number = a.order_number
           /\ PriceShown(r) = a.price}

\* a caller adds one more order, while fewer than cap have been added
AddOne(cap) ==
    /\ counter < StartCounter + cap
    /\ \E o \in AddInputs : add(o)

\* callers add orders and cancel orders that rest
Next ==
    \/ AddOne(MaxOrders)
    \/ \E o \in RestingCopies : remove(o)

Spec == Init /\ [][Next]_vars

\* callers add orders and call remove with any identity
NextAnyRemove ==
    \/ AddOne(MaxOrdersAnyRemove)
    \/ \E o \in RemoveInputs : remove(o)

SpecAnyRemove == Init /\ [][NextAnyRemove]_vars

\* the orders a caller passes to add when it reuses its copies: fresh from
\* Order::new, or still carrying the first number the engine assigned
NumberedInputs ==
    {[o EXCEPT !.order_number = n] : o \in AddInputs, n \in {0, StartCounter}}

\* a caller adds one more order, fresh or reused, while fewer than cap have
\* been added
AddNumbered(cap) ==
    /\ counter < StartCounter + cap
    /\ \E o \in NumberedInputs : add(o)

\* callers add fresh and reused orders and cancel with any argument
NextNumbered ==
    \/ AddNumbered(MaxOrdersNumbered)
    \/ \E o \in RemoveInputs : remove(o)

SpecNumbered == Init /\ [][NextNumbered]_vars

\* the limits a caller asks size_at_limit about: the halves from 1/2 to 5/2
Limits == {[num |-> n, den |-> 2] : n \in 1..5}

\* the sizes a caller asks limit_at_size about
QuerySizes == 0..4

\* the Limit orders a caller adds before it asks about depth
LimitInputs == {o \in AddInputs : o.order_type = "Limit"}

\* a caller adds one more Limit order, while fewer than cap have been added
AddLimit(cap) ==
    /\ counter < StartCounter + cap
    /\ \E o \in LimitInputs : add(o)

\* callers add Limit orders and ask the two depth queries
NextDepth ==
    \/ AddLimit(MaxOrdersDepth)
    \/ \E d \in OrderSide, l \in Limits : size_at_limit(d, l)
    \/ \E d \in OrderSide, z \in QuerySizes : limit_at_size(d, z)

SpecDepth == Init /\ [][NextDepth]_vars

\* the orders a caller passes to replace: a side, a sequence number (0 for
\* a fresh Order::new), a price as the accessors report it, and a new size
ReplaceInputs ==
    {[OrderNew(s, z, p, "Limit") EXCEPT !.order_number = n] :
        s \in OrderSide, z \in Sizes, p \in Prices,
        n \in {0} \cup (StartCounter..(counter - 1))}

\* a caller replaces an order, while at most cap orders rest
ReplaceOne(cap) ==
    /\ Len(buy_orders) + Len(sell_orders) <= cap
    /\ \E o \in ReplaceInputs : replace(o)

\* callers add orders and replace orders
NextReplace ==
    \/ AddOne(MaxOrdersReplace)
    \/ ReplaceOne(MaxOrdersReplace)

SpecReplace == Init /\ [][NextReplace]_vars

\* ============================================================ properties
Elems(s) == {s[i] : i \in 1..Len(s)}
Resting == Elems(buy_orders) \cup Elems(sell_orders)
Resting1 == Elems(buy_orders') \cup Elems(sell_orders')

RECURSIVE SumSizes(_)
SumSizes(s) == IF s = <<>> THEN 0 ELSE s[1].size + SumSizes(Tail(s))

Min(a, b) == IF a < b THEN a ELSE b

\* the book opposite to / on the side of an aggressor, before the call
OppOf(side) == IF side = "Buy" THEN sell_orders ELSE buy_orders
OwnOf(side) == IF side = "Buy" THEN buy_orders ELSE sell_orders
OppOf1(side) == IF side = "Buy" THEN sell_orders' ELSE buy_orders'
OwnOf1(side) == IF side = "Buy" THEN buy_orders' ELSE sell_orders'

\* ---- C1
C1_BestIsBest ==
    /\ Len(buy_orders) > 0 =>
          /\ \E i \in 1..Len(buy_orders) :
                 best_bid = [buy_orders[i] EXCEPT !.price = -1 * @]
          /\ \A i \in 1..Len(buy_orders) :
                 best_bid.price >= PriceShown(buy_orders[i])
    /\ Len(sell_orders) > 0 =>
          /\ best_offer \in Elems(sell_orders)
          /\ \A i \in 1..Len(sell_orders) :
                 best_offer.price <= PriceShown(sell_orders[i])

C1_AdmittedPrice ==
    call.op = "add" =>
       \A o \in Resting :
          o.order_number = ret.order_number =>
             /\ PriceShown(o) = call.order.price
             /\ o.order_side = call.order.order_side
             /\ o \in Elems(OwnOf(call.order.order_side))

\* every order of book s that is still in book t has the price it had
KeptIn(s, t) ==
    \A i \in 1..Len(s) : \A j \in 1..Len(t) :
       t[j].order_number = s[i].order_number =>
          t[j].price = s[i].price /\ t[j].order_side = s[i].order_side

C1_PriceKept ==
    /\ KeptIn(buy_orders, buy_orders') /\ KeptIn(buy_orders, sell_orders')
    /\ KeptIn(sell_orders, sell_orders') /\ KeptIn(sell_orders, buy_orders')

C1_FillsBestFirst ==
    call.op = "add" =>
       \A i \in 1..(Len(ret.fills) - 1) :
          IF call.order.order_side = "Buy"
          THEN ret.fills[i].price <= ret.fills[i + 1].price
          ELSE ret.fills[i].price >= ret.fills[i + 1].price

\* C1: Price priority.  In every reachable state best_bid is a resting buy
\* order with the highest resting buy price and best_offer a resting sell
\* order with the lowest resting sell price; an order that rests is reported
\* with the price it was passed to add with and keeps that price in every
\* later step; the fills of one add never improve in price for the
\* aggressor from one fill to the next.
C1_PricePriority ==
    /\ [](C1_BestIsBest /\ C1_AdmittedPrice /\ C1_FillsBestFirst)
    /\ [][C1_PriceKept]_vars

\* an add that walked two price levels of the opposite book
C1_Witness ==
    /\ call.op = "add"
    /\ Len(ret.fills) = 2
    /\ ret.fills[1].price # ret.fills[2].price

\* ---- C2
SamePriceOldestFirst(s) ==
    \A i \in 1..Len(s) :
       s[i].price = s[1].price => s[1].order_number <= s[i].order_number

\* C2: Time priority.  Among resting orders of one side with the same price
\* the one with the lowest sequence number is the one best_bid/best_offer
\* return (the first of the book, which is the one an aggressor hits first).
C2_TimePriority ==
    SamePriceOldestFirst(buy_orders) /\ SamePriceOldestFirst(sell_orders)

\* ---- C3
\* the remainder recorded by the walk is what the book shows: it rests with
\* that size, or (Ioc, or nothing left) no order of that number rests
RemainderAccounted ==
    IF walk.remaining > 0 /\ call.order.order_type # "Ioc"
    THEN \E o \in Elems(OwnOf(call.order.order_side)) :
            o.order_number = ret.order_number /\ o.size = walk.remaining
    ELSE \A o \in Resting : o.order_number # ret.order_number

\* C3: Conservation.  After every add, the sizes of the returned fills plus
\* the remaining size (rested, or discarded for Ioc) equal the admitted
\* size, and every fill size is > 0.
C3_Conservation ==
    call.op = "add" =>
       /\ SumSizes(ret.fills) + walk.remaining = call.order.size
       /\ \A i \in 1..Len(ret.fills) : ret.fills[i].size > 0
       /\ walk.remaining >= 0
       /\ RemainderAccounted

\* an add with a fill and a remainder
C3_Witness ==
    /\ call.op = "add"
    /\ Len(ret.fills) > 0
    /\ walk.remaining > 0

\* ---- C4
C4_Step ==
    call'.op = "add" =>
       LET o == call'.order
           f == ret'.fills
           m == walk'.matched
       IN  /\ Len(m) = Len(f)
           /\ \A i \in 1..Len(f) :
                 /\ m[i] \in Elems(OppOf(o.order_side))
                 /\ f[i].price = PriceShown(m[i])
                 /\ o.order_type # "Market" =>
                       IF o.order_side = "Buy" THEN f[i].price <= o.price
                       ELSE f[i].price >= o.price

\* C4: every fill of an add is priced at the price of the passive order it
\* hit, an order resting on the opposite book before the call; for an
\* aggressor that is not Market that price is within the limit (Buy: fill
\* price <= limit, Sell: fill price >= limit).
C4_PassivePrice == [][C4_Step]_vars

\* a Limit aggressor filled at a price better than its limit
C4_Witness ==
    /\ call.op = "add"
    /\ call.order.order_type = "Limit"
    /\ Len(ret.fills) > 0
    /\ ret.fills[1].price # call.order.price

\* ---- C5
C5_Step ==
    (call'.op = "add" /\ call'.order.order_type = "Ioc") =>
       /\ \A o \in Resting1 : o.order_number # ret'.order_number
       /\ Len(OwnOf1(call'.order.order_side))
             = Len(OwnOf(call'.order.order_side))

\* C5: after add of an Ioc order neither book holds an order with the
\* sequence number add returned, and the count of the order's own side is
\* what it was before the call.
C5_IocNeverRests == [][C5_Step]_vars

\* an Ioc order filled in part, its remainder discarded
C5_Witness ==
    /\ call.op = "add"
    /\ call.order.order_type = "Ioc"
    /\ Len(ret.fills) > 0
    /\ walk.remaining > 0

\* ---- C6
C6_Step ==
    (call'.op = "add" /\ call'.order.order_type = "Market") =>
       LET o == call'.order
       IN  /\ SumSizes(ret'.fills)
                 = Min(o.size, SumSizes(OppOf(o.order_side)))
           /\ walk'.remaining = 0 \/ Len(OppOf1(o.order_side)) = 0

\* C6: add of a Market order of size s fills exactly min(s, total size
\* resting on the opposite book before the call), whatever the prices; the
\* walk ends with the order filled or the opposite book empty.
C6_MarketIgnoresPrice == [][C6_Step]_vars

\* a Market buy filled above its price field
C6_Witness ==
    /\ call.op = "add"
    /\ call.order.order_type = "Market"
    /\ call.order.order_side = "Buy"
    /\ Len(ret.fills) > 0
    /\ ret.fills[1].price > call.order.price

\* ---- C7
\* the order does not cross: the opposite book is empty, or it is a Limit
\* order whose limit is strictly worse than the best opposite price
NonCrossing(o) ==
    \/ Len(OppOf(o.order_side)) = 0
    \/ /\ o.order_type = "Limit"
       /\ Len(OppOf(o.order_side)) > 0
       /\ IF o.order_side = "Buy" THEN o.price < best_offer.price
          ELSE o.price > best_bid.price

\* no fill, opposite book untouched, the order added to its own side with
\* its full size and its price, the other orders of that side kept
RestsInFull(o) ==
    /\ ret'.fills = <<>>
    /\ OppOf1(o.order_side) = OppOf(o.order_side)
    /\ \E r \in Elems(OwnOf1(o.order_side)) :
          /\ r.order_number = ret'.order_number
          /\ r.size = o.size
          /\ PriceShown(r) = o.price
    /\ Elems(OwnOf(o.order_side)) \subseteq Elems(OwnOf1(o.order_side))
    /\ Len(OwnOf1(o.order_side)) = Len(OwnOf(o.order_side)) + 1

NamesResting(a) ==
    \E r \in Elems(OwnOf(a.order_side)) :
       r.order_number = a.order_number /\ PriceShown(r) = a.price

C8_Step ==
    (call'.op = "remove" /\ NamesResting(call'.order)) =>
       LET a == call'.order
       IN  /\ ret'.removed = TRUE
           /\ OwnOf1(a.order_side)
                 = SelectSeq(OwnOf(a.order_side),
                             LAMBDA r : r.order_number # a.order_number)
           /\ Len(OwnOf1(a.order_side)) = Len(OwnOf(a.order_side)) - 1
           /\ OppOf1(a.order_side) = OppOf(a.order_side)
           /\ counter' = counter

\* C8: remove called with the side, price and sequence number of a resting
\* order returns true, removes exactly that order (count of the side minus
\* one) and leaves every other resting order and the counter unchanged.
C8_RemoveResting == [][C8_Step]_vars

\* a successful remove that leaves another order resting on the same side
C8_Witness ==
    /\ call.op = "remove"
    /\ ret.removed
    /\ Len(OwnOf(call.order.order_side)) > 0

\* ---- C9
C9_Step ==
    /\ (call'.op = "remove"
          /\ \A r \in Elems(OwnOf(call'.order.order_side)) :
                r.order_number # call'.order.order_number) =>
          /\ ret'.removed = FALSE
          /\ buy_orders' = buy_orders
          /\ sell_orders' = sell_orders
          /\ counter' = counter
    /\ (call.op = "remove" /\ ret.removed /\ call'.op = "remove"
          /\ call'.order.order_number = call.order.order_number
          /\ call'.order.order_side = call.order.order_side) =>
          ret'.removed = FALSE

\* C9: remove with a sequence number that is not resting on the given side
\* returns false and changes neither book nor the counter; a remove that
\* repeats the identity of a successful remove returns false.
C9_RemoveAbsent == [][C9_Step]_vars

\* a remove of a number add once returned that rests no more (removed or
\* filled), on a side that still holds an order
C9_Witness ==
    /\ call.op = "remove"
    /\ ~ret.removed
    /\ call.order.order_number >= StartCounter
    /\ \A r \in Resting : r.order_number # call.order.order_number
    /\ Len(OwnOf(call.order.order_side)) > 0

\* ---- C10
C10_Step ==
    (call'.op = "remove"
       /\ \E r \in Elems(OwnOf(call'.order.order_side)) :
             r.order_number = call'.order.order_number) =>
       /\ ret'.removed = TRUE
       /\ \A r \in Elems(OwnOf1(call'.order.order_side)) :
             r.order_number # call'.order.order_number

\* C10: remove carrying the side and the sequence number of a resting order
\* removes it and returns true whatever price the passed order carries.
C10_RemoveBySequenceOnly == [][C10_Step]_vars

\* ---- C11
\* C11: best_bid and best_offer never fault: on an empty side the accessor
\* returns the empty result None.
C11_AccessorsNeverFault ==
    /\ Len(buy_orders) = 0 => best_bid = "None"
    /\ Len(sell_orders) = 0 => best_offer = "None"

\* ---- C18
\* C18: every Fill of an add carries the sequence number the add returns as
\* aggressor identity, the sequence number of the resting order it hit as
\* passive identity, and the aggressor's side as direction.
C18_FillIdentities ==
    call.op = "add" =>
       \A i \in 1..Len(ret.fills) :
          /\ ret.fills[i].aggressor_id = ret.order_number
          /\ ret.fills[i].passive_id = walk.matched[i].order_number
          /\ ret.fills[i].direction = call.order.order_side

\* ---- C19
\* the size a Fok order could take from the opposite book at its limit or
\* better, before the call
FillableAtLimit(o) ==
    SumSizes(SelectSeq(OppOf(o.order_side),
                LAMBDA r : IF o.order_side = "Buy"
                           THEN PriceShown(r) <= o.price
                           ELSE PriceShown(r) >= o.price))

C19_Step ==
    (call'.op = "add" /\ call'.order.order_type = "Fok"
       /\ FillableAtLimit(call'.order) < call'.order.size) =>
       /\ ret'.fills = <<>>
       /\ buy_orders' = buy_orders
       /\ sell_orders' = sell_orders

\* C19: a Fok order that the opposite book cannot fill in full at its limit
\* or better returns no fills, leaves both books unchanged and does not
\* rest.
C19_FokAllOrNothing == [][C19_Step]_vars

\* ---- C20
\* the aggressor's size left before its i-th fill
LeftBefore(o, f, i) == o.size - SumSizes(SubSeq(f, 1, i - 1))

C20_Step ==
    call'.op = "add" =>
       LET o == call'.order
           f == ret'.fills
           m == walk'.matched
           opp == OppOf(o.order_side)
           opp1 == OppOf1(o.order_side)
           own == OwnOf(o.order_side)
           own1 == OwnOf1(o.order_side)
           hit == {m[i].order_number : i \in 1..Len(m)}
           gone == {i \in 1..Len(m) : m[i].size = f[i].size}
       IN  /\ \A i \in 1..Len(f) :
                 /\ m[i] \in Elems(opp)
                 /\ f[i].size = Min(LeftBefore(o, f, i), m[i].size)
                 /\ IF m[i].size > f[i].size
                    THEN /\ Len(opp1) > 0
                         /\ opp1[1] = [m[i] EXCEPT !.size = m[i].size - f[i].size]
                         /\ \A j \in 2..Len(opp1) :
                               opp1[j].order_number # m[i].order_number
                    ELSE \A r \in Elems(opp1) :
                            r.order_number # m[i].order_number
           /\ Len(opp1) = Len(opp) - Cardinality(gone)
           /\ \A r \in Elems(opp) : r.order_number \notin hit => r \in Elems(opp1)
           /\ \A r \in Elems(opp1) : r.order_number \notin hit => r \in Elems(opp)
           /\ \A r \in Elems(own) : r \in Elems(own1)
           /\ \A r \in Elems(own1) :
                 r \in Elems(own) \/ r.order_number = ret'.order_number

\* C20: in the walk of an add each fill has size min(aggressor size left,
\* passive size); a passive order larger than its fill stays in the opposite
\* book with its sequence number and price, its size reduced by the fill
\* size, as the first order of that book; a passive order equal to its fill
\* is removed; the opposite count drops by the removed orders only; no other
\* resting order of either side is modified.
C20_WalkEffects == [][C20_Step]_vars

\* an add that removed one passive order and reduced the next
C20_Witness ==
    /\ call.op = "add"
    /\ Len(ret.fills) = 2
    /\ walk.matched[2].size > ret.fills[2].size

\* ---- C12
C12_Step ==
    (call'.op = "replace" /\ NamesResting(call'.order)) =>
       LET a == call'.order
           own == OwnOf(a.order_side)
           own1 == OwnOf1(a.order_side)
       IN  /\ Cardinality(ret'.previous) = 1
           /\ ret'.previous \subseteq Elems(own)
           /\ \A r \in ret'.previous : r.order_number = a.order_number
           /\ Len(own1) = Len(own)
           /\ Len(buy_orders') = Len(buy_orders)
           /\ Len(sell_orders') = Len(sell_orders)
           /\ OppOf1(a.order_side) = OppOf(a.order_side)
           /\ \A i \in 1..Len(own) :
                 IF own[i].order_number = a.order_number
                 THEN /\ own1[i].order_number = a.order_number
                      /\ own1[i].size = a.size
                      /\ PriceShown(own1[i]) = a.price
                 ELSE own1[i] = own[i]

\* C12: replace called with the side, the sequence number and the reported
\* price of a resting order of either side, and a new size, returns the
\* order stored before, leaves both counts unchanged, and leaves exactly one
\* order with that sequence number, at the same position, with the new size.
C12_ReplaceResting == [][C12_Step]_vars

\* ---- C13
C13_Step ==
    (call'.op = "replace"
       /\ \A r \in Resting : r.order_number # call'.order.order_number) =>
       /\ ret'.previous = {}
       /\ buy_orders' = buy_orders
       /\ sell_orders' = sell_orders

\* C13: replace called with an order whose sequence number matches no
\* resting order (a fresh order carries 0) returns None and leaves both books
\* unchanged.
C13_ReplaceAbsent == [][C13_Step]_vars

\* ---- C14
C14_Step ==
    /\ call'.op = "add" =>
          /\ ret'.order_number = counter
          /\ counter' = counter + 1
          /\ \A r \in Elems(OwnOf1(call'.order.order_side)) :
                r \notin Elems(OwnOf(call'.order.order_side))
                   => r.order_number = ret'.order_number
    /\ call'.op # "add" => counter' = counter
    /\ \A r \in Resting1 : r.order_number < counter'
    /\ \A r1, r2 \in Resting1 : r1.order_number = r2.order_number => r1 = r2

\* C14: every add returns the counter's value, whatever sequence number the
\* caller's order carried, rests its remainder under that number and moves
\* the counter up by one; nothing else moves the counter; so the numbers
\* returned are strictly increasing, every resting order carries a number
\* below the counter, and no two resting orders of the two books share a
\* number, under any sequence of add and remove.
C14_SequenceNumbers == [][C14_Step]_vars

\* a reused order, passed with the number 1230 it got before, rests under a
\* later number next to the order that holds 1230
C14_Witness ==
    /\ call.op = "add"
    /\ call.order.order_number = StartCounter
    /\ ret.order_number > StartCounter
    /\ \E r1, r2 \in Resting :
          /\ r1.order_number = StartCounter
          /\ r2.order_number = ret.order_number

\* ---- C15
\* the reported prices of a book, unit by unit, in the order of the book
RECURSIVE Units(_)
Units(s) ==
    IF s = <<>> THEN <<>>
    ELSE [k \in 1..s[1].size |-> PriceShown(s[1])] \o Units(Tail(s))

RECURSIVE SumSeq(_)
SumSeq(u) == IF u = <<>> THEN 0 ELSE u[1] + SumSeq(Tail(u))

\* the weighted sum of the first q units of a book
Cost(s, q) == SumSeq(SubSeq(Units(s), 1, q))

\* for a participant trading in direction d: the price p is at least as
\* favourable as the limit l; q units costing c average within the limit l
Favourable(d, p, l) ==
    IF d = "Buy" THEN p * l.den <= l.num ELSE p * l.den >= l.num
WithinLimit(d, c, q, l) ==
    IF d = "Buy" THEN c * l.den <= l.num * q ELSE c * l.den >= l.num * q

\* the size a depth query reported, 0 for None
FoundSize == IF ret.report = {} THEN 0
             ELSE (CHOOSE r \in ret.report : TRUE).size

C16_Step ==
    (call'.op = "limit_at_size" /\ call'.size > 0
       /\ OppOf(call'.direction) # <<>>) =>
       LET opp == OppOf(call'.direction)
           found == Min(call'.size, SumSizes(opp))
       IN  /\ Cardinality(ret'.report) = 1
           /\ \A r \in ret'.report :
                 /\ r.size = found
                 /\ r.price.den = found
                 /\ r.price.num = Cost(opp, found)
           /\ buy_orders' = buy_orders
           /\ sell_orders' = sell_orders

\* C16: limit_at_size(direction, size) with size > 0 on a non-empty opposite
\* book reports found = min(size, total size of the opposite book) and the
\* price: weighted sum of the first found units of the opposite book in its
\* priority order, over found; both books stay as they were.
C16_LimitAtSize == [][C16_Step]_vars

\* a query whose last order contributed only the part still needed
C16_Witness ==
    /\ call.op = "limit_at_size"
    /\ Len(OppOf(call.direction)) >= 2
    /\ call.size > OppOf(call.direction)[1].size
    /\ call.size < SumSizes(OppOf(call.direction))
    /\ \E r \in ret.report : r.size = call.size

\* ---- C17
\* C17: size_at_limit and limit_at_size return None when the opposite book
\* is empty and when the requested size is 0, and never a LimitReport of
\* size 0.
C17_NoEmptyReport ==
    /\ call.op \in {"size_at_limit", "limit_at_size"} =>
          /\ OppOf(call.direction) = <<>> => ret.report = {}
          /\ \A r \in ret.report : r.size # 0
    /\ (call.op = "limit_at_size" /\ call.size = 0) => ret.report = {}

\* ---- C21
\* C21: every order in either book has size > 0; after an add, no passive
\* order that a fill consumed whole is left in a book, and an aggressor
\* with nothing left is not in a book.
C21_PositiveSizes ==
    /\ \A r \in Resting : r.size > 0
    /\ call.op = "add" =>
          /\ \A i \in 1..Len(ret.fills) :
                walk.matched[i].size = ret.fills[i].size =>
                   \A r \in Resting :
                      r.order_number # walk.matched[i].order_number
          /\ walk.remaining = 0 =>
                \A r \in Resting : r.order_number # ret.order_number

\* an add that consumed a passive order whole, was itself filled in full,
\* and left other orders resting
C21_Witness ==
    /\ call.op = "add"
    /\ walk.remaining = 0
    /\ Len(ret.fills) >= 1
    /\ walk.matched[1].size = ret.fills[1].size
    /\ Resting # {}

\* ---- C22
\* the aggressor of the last add rests
Rested == \E r \in Resting : r.order_number = ret.order_number

\* C22: whenever both books are non-empty the best bid price is strictly
\* below the best offer price (and so is every bid below every offer); a
\* Limit or Market aggressor that rests leaves the opposite book empty or
\* with a best price that does not cross the aggressor's price.
C22_NeverCrossed ==
    /\ (Len(buy_orders) > 0 /\ Len(sell_orders) > 0) =>
          /\ best_bid.price < best_offer.price
          /\ \A b \in Elems(buy_orders), a \in Elems(sell_orders) :
                PriceShown(b) < PriceShown(a)
    /\ (call.op = "add" /\ call.order.order_type \in {"Limit", "Market"}
          /\ Rested) =>
          \/ OppOf(call.order.order_side) = <<>>
          \/ IF call.order.order_side = "Buy"
             THEN best_offer.price > call.order.price
             ELSE best_bid.price < call.order.price

\* an aggressor that took the crossing part of the opposite book and rests
\* its remainder in front of what is left there
C22_Witness ==
    /\ call.op = "add"
    /\ Len(ret.fills) >= 1
    /\ walk.remaining > 0
    /\ Rested
    /\ Len(buy_orders) > 0
    /\ Len(sell_orders) > 0

====
